---- MODULE Spec2Model ----
(***************************************************************************)
(* A model of rester-js' RESTfulClient: one client object, the calls made  *)
(* on it (get, post, put, delete, request, createURL), the transport       *)
(* (fetch) answering them, and the resolve step that routes the response   *)
(* to the resolver or to the error handler.                                *)
(*                                                                         *)
(* JavaScript objects are functions from property names to values, text    *)
(* that the code converts (URLs, bodies) is a sequence of one-character    *)
(* strings, and opaque text (header values, method names) is a string.     *)
(***************************************************************************)
EXTENDS Integers, Sequences, FiniteSets, TLC

\* Bounds of the model.
MaxCalls == 2
MaxPathLen == 3

\* The status from which resolve treats a response as failed.
ErrorStatus == 400

----------------------------------------------------------------------------
\* Objects and the spread operator.

\* The object literal {}.
EmptyObject == [k \in {} |-> ""]

\* {...a, ...b}: b's properties win over a's.
Spread(a, b) ==
  [k \in (DOMAIN a) \cup (DOMAIN b) |-> IF k \in DOMAIN b THEN b[k] ELSE a[k]]

\* o?.headers, spread into a literal: nothing when the property is absent.
HeadersOf(o) == IF "headers" \in DOMAIN o THEN o["headers"] ELSE EmptyObject

----------------------------------------------------------------------------
\* JavaScript values that reach JSON.stringify.

StringValue(s) == [t |-> "string", s |-> s]
NumberValue(digits) == [t |-> "number", s |-> digits]
Undefined == [t |-> "undefined"]
ObjectValue(props) == [t |-> "object", props |-> props]

\* The escaping JSON.stringify applies inside a quoted string.
RECURSIVE Escape(_)
Escape(s) ==
  IF s = <<>> THEN <<>>
  ELSE (IF Head(s) \in {"\"", "\\"} THEN <<"\\", Head(s)>> ELSE <<Head(s)>>)
       \o Escape(Tail(s))

Quote(s) == <<"\"">> \o Escape(s) \o <<"\"">>

\* JSON.stringify(v): the text of v, or undefined for undefined.
\* An object is a sequence of [k, v] properties in insertion order; a
\* property whose value is undefined is left out.
RECURSIVE StringifyText(_)
RECURSIVE StringifyProps(_, _)
StringifyProps(props, first) ==
  IF props = <<>> THEN <<>>
  ELSE IF Head(props).v.t = "undefined" THEN StringifyProps(Tail(props), first)
  ELSE (IF first THEN <<>> ELSE <<",">>)
       \o Quote(Head(props).k) \o <<":">> \o StringifyText(Head(props).v)
       \o StringifyProps(Tail(props), FALSE)

StringifyText(v) ==
  CASE v.t = "string" -> Quote(v.s)
    [] v.t = "number" -> v.s
    [] v.t = "object" -> <<"{">> \o StringifyProps(v.props, TRUE) \o <<"}">>

JSONStringify(v) ==
  IF v.t = "undefined" THEN Undefined ELSE StringValue(StringifyText(v))

----------------------------------------------------------------------------
\* createURL.

Separators == {"/", "\\"}

\* The first index at or after j that holds no separator.
RECURSIVE RunEnd(_, _)
RunEnd(s, j) ==
  IF j > Len(s) \/ s[j] \notin Separators THEN j ELSE RunEnd(s, j + 1)

\* s.replace(/([^:])[\\/]+/g, '$1/') from index i on: a character other
\* than ':' followed by a run of separators becomes that character and
\* one '/'; the search resumes after the run.
RECURSIVE ReplaceFrom(_, _)
ReplaceFrom(s, i) ==
  IF i > Len(s) THEN <<>>
  ELSE IF s[i] # ":" /\ i + 1 <= Len(s) /\ s[i + 1] \in Separators
       THEN <<s[i], "/">> \o ReplaceFrom(s, RunEnd(s, i + 1))
       ELSE <<s[i]>> \o ReplaceFrom(s, i + 1)

CollapseSeparators(s) == ReplaceFrom(s, 1)

Letters == {"h", "a"}

\* new URL(s) without a base accepts s only if it starts with a scheme:
\* letters followed by ':'.
HasScheme(s) ==
  \E i \in 2..Len(s) : s[i] = ":" /\ \A j \in 1..(i - 1) : s[j] \in Letters

TypeError == [t |-> "Error", name |-> "TypeError"]

\* createURL(resourceUri) on a client with the given root: the URL, or the
\* TypeError that new URL throws.
createURL(clientRoot, resourceUri) ==
  LET text == CollapseSeparators(clientRoot \o <<"/">> \o resourceUri)
  IN  IF HasScheme(text) THEN [ok |-> TRUE, href |-> text]
      ELSE [ok |-> FALSE, href |-> text]

\* url.searchParams.append(key, query[key]) for each key, in insertion order.
RECURSIVE QueryText(_, _)
QueryText(query, first) ==
  IF query = <<>> THEN <<>>
  ELSE (IF first THEN <<"?">> ELSE <<"&">>)
       \o Head(query).k \o <<"=">> \o Head(query).v
       \o QueryText(Tail(query), FALSE)

AppendQuery(href, query) == href \o QueryText(query, TRUE)

----------------------------------------------------------------------------
\* The constructor and the option merge.

StringAuthorization(v) == [t |-> "string", v |-> v]
FunctionAuthorization == [t |-> "function"]

\* options?.authorization || '': absent and the empty string are falsy.
AuthorizationOrDefault(options) ==
  IF "authorization" \in DOMAIN options
     /\ options["authorization"] # StringAuthorization("")
  THEN options["authorization"]
  ELSE StringAuthorization("")

\* options?.contentType || 'application/json'
ContentTypeOrDefault(options) ==
  IF "contentType" \in DOMAIN options /\ options["contentType"] # ""
  THEN options["contentType"]
  ELSE "application/json"

\* new RESTfulClient(root, options): the fields of the new client.
\* this.fetchOptions is set to {} whatever options.fetchOptions holds.
constructor(rootArg, options) ==
  [root |-> rootArg,
   authorization |-> AuthorizationOrDefault(options),
   contentType |-> ContentTypeOrDefault(options),
   fetchOptions |-> EmptyObject]

\* What a counter-based authorization resolver returns on its n-th call.
Tokens == <<"token-1", "token-2", "token-3", "token-4", "token-5", "token-6">>

\* A getAuthorization that keeps the first value the function returned.
getAuthorizationCached(auth, calls) ==
  IF auth.t = "string"
  THEN [value |-> auth.v, invoked |-> FALSE]
  ELSE IF calls # <<>>
  THEN [value |-> calls[1].value, invoked |-> FALSE]
  ELSE [value |-> Tokens[1], invoked |-> TRUE]

\* getAuthorization(): a string is returned as it is, a function is
\* invoked; calls is the log of the resolver's invocations so far.
getAuthorization(auth, calls) ==
  IF auth.t = "string"
  THEN [value |-> auth.v, invoked |-> FALSE]
  ELSE [value |-> Tokens[Len(calls) + 1], invoked |-> TRUE]

\* A header merge that spreads the per-call headers before the synthesized
\* ones.
requestHeadersSynthesizedLast(defaults, options, type, auth) ==
  Spread(Spread(HeadersOf(defaults), HeadersOf(options)),
         ("Content-Type" :> type) @@ ("Authorization" :> auth))

\* The headers object request builds.
requestHeaders(defaults, options, type, auth) ==
  Spread(Spread(HeadersOf(defaults),
                ("Content-Type" :> type) @@ ("Authorization" :> auth)),
         HeadersOf(options))

\* The options request passes to fetch.
requestOptions(defaults, options, type, auth) ==
  Spread(Spread(defaults, options),
         [headers |-> requestHeaders(defaults, options, type, auth)])

\* The options each verb helper passes to request.
getOptions(options) == Spread(options, [method |-> "GET"])

\* A post that serializes every body, as put does.
postOptionsAlwaysStringify(body, options) ==
  Spread(Spread([body |-> JSONStringify(body)], options), [method |-> "POST"])

postOptions(body, options) ==
  Spread(Spread([body |-> IF body.t = "string" THEN body ELSE JSONStringify(body)],
                options),
         [method |-> "POST"])

deleteOptions(options) == Spread(options, [method |-> "DELETE"])

\* A put that passes a string body through, as post does.
putOptionsStringsAsIs(body, options) ==
  Spread(Spread([body |-> IF body.t = "string" THEN body ELSE JSONStringify(body)],
                options),
         [method |-> "PUT"])

putOptions(body, options) ==
  Spread(Spread([body |-> JSONStringify(body)], options), [method |-> "PUT"])

----------------------------------------------------------------------------
\* resolve.

\* The response of the id-th call, with its status.
Response(id, status) == [t |-> "Response", id |-> id, status |-> status]
NoResponse == [t |-> "none"]
Parsed(response) == [t |-> "Parsed", of |-> response]
ResolverError == [t |-> "Error", name |-> "ResolverError"]
HandlerError == [t |-> "Error", name |-> "HandlerError"]
NetworkError == [t |-> "Error", name |-> "NetworkError"]

Returned(v) == [kind |-> "returned", value |-> v]
Thrown(e) == [kind |-> "thrown", value |-> e]
NoResult == [kind |-> "none"]

\* What the configured resolver and error handler may do when called.
ResolverOutcomes == {"return", "throw"}
HandlerOutcomes == {"return", "throw"}

\* A resolve that treats only a status above 400 as failed.
resolveAboveThreshold(response, resolverDoes, handlerDoes) ==
  IF response.status > ErrorStatus
  THEN [errorHandlerCalls |-> << <<response.status, response>> >>,
        resolverCalls |-> <<>>,
        result |-> IF handlerDoes = "throw" THEN Thrown(HandlerError)
                   ELSE Returned(response)]
  ELSE [errorHandlerCalls |-> <<>>,
        resolverCalls |-> <<response>>,
        result |-> IF resolverDoes = "throw" THEN Thrown(ResolverError)
                   ELSE Returned(Parsed(response))]

\* A resolve that calls the resolver and returns the response all the same.
resolveReturnsResponse(response, resolverDoes, handlerDoes) ==
  IF response.status >= ErrorStatus
  THEN [errorHandlerCalls |-> << <<response.status, response>> >>,
        resolverCalls |-> <<>>,
        result |-> IF handlerDoes = "throw" THEN Thrown(HandlerError)
                   ELSE Returned(response)]
  ELSE [errorHandlerCalls |-> <<>>,
        resolverCalls |-> <<response>>,
        result |-> IF resolverDoes = "throw" THEN Thrown(ResolverError)
                   ELSE Returned(response)]

\* resolve(response): the calls it makes and how it ends. resolverDoes and
\* handlerDoes say what the callback does if it is called.
resolve(response, resolverDoes, handlerDoes) ==
  IF response.status >= ErrorStatus
  THEN [errorHandlerCalls |-> << <<response.status, response>> >>,
        resolverCalls |-> <<>>,
        result |-> IF handlerDoes = "throw" THEN Thrown(HandlerError)
                   ELSE Returned(response)]
  ELSE [errorHandlerCalls |-> <<>>,
        resolverCalls |-> <<response>>,
        result |-> IF resolverDoes = "throw" THEN Thrown(ResolverError)
                   ELSE Returned(Parsed(response))]

----------------------------------------------------------------------------
\* The inputs.

Roots ==
  {<<"h", ":", "/", "/", "a">>, <<"h", ":", "/", "/", "a", "/">>, <<"a">>}

PathChars == {"/", "\\", ":", "a"}
AllPaths == UNION {[1..n -> PathChars] : n \in 0..MaxPathLen}
VerbPaths == {<<"a">>, <<"/", "a">>}
DirectURLs == {<<"h", ":", "/", "/", "a", "/", "a">>}

Queries == {<<>>, <<[k |-> <<"i">>, v |-> <<"1">>]>>}

Bodies ==
  {StringValue(<<"a", "\"">>),
   ObjectValue(<<[k |-> <<"a">>, v |-> NumberValue(<<"1">>)]>>),
   Undefined}

DefaultHeaders ==
  ("Content-Type" :> "default-type") @@ ("Authorization" :> "default-auth")
  @@ ("X-Default" :> "default-x")

FetchOptionsValues ==
  {EmptyObject,
   [redirect |-> "follow", cache |-> "reload", headers |-> DefaultHeaders]}

PerCallOptions ==
  {EmptyObject,
   [method |-> "PATCH"],
   [body |-> StringValue(<<"r">>)],
   [cache |-> "no-cache", headers |-> ("Content-Type" :> "form")],
   [headers |-> ("Authorization" :> "call-auth") @@ ("X-Call" :> "call-x")
                @@ ("X-Default" :> "call-d")]}

ConstructorOptions ==
  {Spread(Spread(a, c), f) :
     a \in {EmptyObject, [authorization |-> StringAuthorization("Basic")],
            [authorization |-> FunctionAuthorization]},
     c \in {EmptyObject, [contentType |-> "text/plain"]},
     f \in {EmptyObject,
            [fetchOptions |-> [redirect |-> "follow",
                               headers |-> ("X-Default" :> "default-x")]]}}

Statuses == {200, 399, 400, 500}

----------------------------------------------------------------------------
\* The state.

VARIABLES
  root,               \* this.root
  authorization,      \* this.authorization
  contentType,        \* this.contentType
  fetchOptions,       \* this.fetchOptions
  ctorOptions,        \* the options the constructor was given
  pc,                 \* "idle", "fetching" (awaiting fetch) or "settled"
  ncalls,             \* the calls made on the client so far
  call,               \* the current call: helper and arguments
  url,                \* the URL the current call built or was given
  fetchCalls,         \* the current call's calls of fetch: [url, options]
  response,           \* the response fetch gave the current call
  resolverCalls,      \* the current call's calls of the resolver
  errorHandlerCalls,  \* the current call's calls of the error handler
  result,             \* how the current call ended
  authCalls,          \* every invocation of the authorization function
  sentAuthorization   \* the Authorization header of every call of fetch

vars ==
  <<root, authorization, contentType, fetchOptions, ctorOptions, pc, ncalls,
    call, url, fetchCalls, response, resolverCalls, errorHandlerCalls, result,
    authCalls, sentAuthorization>>

client == <<root, authorization, contentType, ctorOptions>>

NoCall ==
  [helper |-> "none", uri |-> <<>>, query |-> <<>>, body |-> Undefined,
   options |-> EmptyObject]

NoURL == [ok |-> FALSE, href |-> <<>>]

Init ==
  \E rootArg \in Roots, options \in ConstructorOptions :
    LET this == constructor(rootArg, options)
    IN  /\ root = this.root
        /\ authorization = this.authorization
        /\ contentType = this.contentType
        /\ fetchOptions = this.fetchOptions
        /\ ctorOptions = options
        /\ pc = "idle"
        /\ ncalls = 0
        /\ call = NoCall
        /\ url = NoURL
        /\ fetchCalls = <<>>
        /\ response = NoResponse
        /\ resolverCalls = <<>>
        /\ errorHandlerCalls = <<>>
        /\ result = NoResult
        /\ authCalls = <<>>
        /\ sentAuthorization = <<>>

----------------------------------------------------------------------------
\* The operations.

\* request(url, options) up to its await: the authorization is resolved,
\* the options are merged and fetch is called.
request(href, options) ==
  LET auth == getAuthorization(authorization, authCalls)
      merged == requestOptions(fetchOptions, options, contentType, auth.value)
  IN  /\ authCalls' = IF auth.invoked
                      THEN Append(authCalls, [call |-> ncalls', value |-> auth.value])
                      ELSE authCalls
      /\ fetchCalls' = <<[url |-> href, options |-> merged]>>
      /\ sentAuthorization' =
           Append(sentAuthorization,
                  [call |-> ncalls',
                   value |-> merged["headers"]["Authorization"],
                   percall |-> "Authorization" \in DOMAIN HeadersOf(options)])
      /\ pc' = "fetching"
      /\ result' = NoResult

\* A call starts: the caller holds no call in flight.
Begin(c, u) ==
  /\ pc = "idle"
  /\ ncalls < MaxCalls
  /\ ncalls' = ncalls + 1
  /\ call' = c
  /\ url' = u
  /\ response' = NoResponse
  /\ resolverCalls' = <<>>
  /\ errorHandlerCalls' = <<>>
  /\ UNCHANGED <<client, fetchOptions>>

\* new URL threw in createURL: the helper ends before request is called.
URLThrows ==
  /\ pc' = "settled"
  /\ result' = Thrown(TypeError)
  /\ fetchCalls' = <<>>
  /\ UNCHANGED <<authCalls, sentAuthorization>>

get(uri, query, options) ==
  LET built == createURL(root, uri)
      u == [ok |-> built.ok, href |-> AppendQuery(built.href, query)]
  IN  /\ Begin([helper |-> "get", uri |-> uri, query |-> query,
                body |-> Undefined, options |-> options], u)
      /\ IF u.ok THEN request(u.href, getOptions(options)) ELSE URLThrows

post(uri, body, options) ==
  LET u == createURL(root, uri)
  IN  /\ Begin([helper |-> "post", uri |-> uri, query |-> <<>>,
                body |-> body, options |-> options], u)
      /\ IF u.ok THEN request(u.href, postOptions(body, options)) ELSE URLThrows

delete(uri, options) ==
  LET u == createURL(root, uri)
  IN  /\ Begin([helper |-> "delete", uri |-> uri, query |-> <<>>,
                body |-> Undefined, options |-> options], u)
      /\ IF u.ok THEN request(u.href, deleteOptions(options)) ELSE URLThrows

put(uri, body, options) ==
  LET u == createURL(root, uri)
  IN  /\ Begin([helper |-> "put", uri |-> uri, query |-> <<>>,
                body |-> body, options |-> options], u)
      /\ IF u.ok THEN request(u.href, putOptions(body, options)) ELSE URLThrows

\* request called by the owner, with an absolute URL.
requestDirect(href, options) ==
  /\ Begin([helper |-> "request", uri |-> href, query |-> <<>>,
            body |-> Undefined, options |-> options],
           [ok |-> TRUE, href |-> href])
  /\ request(href, options)

\* createURL called by the owner: no request is made.
createURLDirect(uri) ==
  LET u == createURL(root, uri)
  IN  /\ pc = "idle"
      /\ call' = [helper |-> "createURL", uri |-> uri, query |-> <<>>,
                  body |-> Undefined, options |-> EmptyObject]
      /\ url' = u
      /\ pc' = "settled"
      /\ result' = IF u.ok THEN Returned([t |-> "URL", href |-> u.href])
                   ELSE Thrown(TypeError)
      /\ fetchCalls' = <<>>
      /\ response' = NoResponse
      /\ resolverCalls' = <<>>
      /\ errorHandlerCalls' = <<>>
      /\ UNCHANGED <<client, fetchOptions, ncalls, authCalls, sentAuthorization>>

\* fetch resolves with a response: request resumes and awaits resolve.
FetchFulfils(status, resolverDoes, handlerDoes) ==
  LET r == Response(ncalls, status)
      done == resolve(r, resolverDoes, handlerDoes)
  IN  /\ pc = "fetching"
      /\ response' = r
      /\ resolverCalls' = resolverCalls \o done.resolverCalls
      /\ errorHandlerCalls' = errorHandlerCalls \o done.errorHandlerCalls
      /\ result' = done.result
      /\ pc' = "settled"
      /\ UNCHANGED <<client, fetchOptions, ncalls, call, url, fetchCalls,
                     authCalls, sentAuthorization>>

\* A request that calls fetch a second time when the first call rejects.
FetchRejectsRetry ==
  /\ pc = "fetching"
  /\ IF Len(fetchCalls) < 2
     THEN /\ fetchCalls' = Append(fetchCalls, fetchCalls[1])
          /\ UNCHANGED <<pc, result>>
     ELSE /\ result' = Thrown(NetworkError)
          /\ pc' = "settled"
          /\ UNCHANGED fetchCalls
  /\ UNCHANGED <<client, fetchOptions, ncalls, call, url, response,
                 resolverCalls, errorHandlerCalls, authCalls, sentAuthorization>>

\* fetch rejects (network failure): the rejection leaves request uncaught.
FetchRejects ==
  /\ pc = "fetching"
  /\ result' = Thrown(NetworkError)
  /\ pc' = "settled"
  /\ UNCHANGED <<client, fetchOptions, ncalls, call, url, fetchCalls, response,
                 resolverCalls, errorHandlerCalls, authCalls, sentAuthorization>>

\* The call's promise has settled and the caller goes on: what was observed
\* of the call is dropped.
Return ==
  /\ pc = "settled"
  /\ pc' = "idle"
  /\ call' = NoCall
  /\ url' = NoURL
  /\ fetchCalls' = <<>>
  /\ response' = NoResponse
  /\ resolverCalls' = <<>>
  /\ errorHandlerCalls' = <<>>
  /\ result' = NoResult
  /\ UNCHANGED <<client, fetchOptions, ncalls, authCalls, sentAuthorization>>

\* The owner assigns the public field fetchOptions between two calls.
AssignFetchOptions(value) ==
  /\ pc = "idle"
  /\ value # fetchOptions
  /\ fetchOptions' = value
  /\ UNCHANGED <<client, pc, ncalls, call, url, fetchCalls, response,
                 resolverCalls, errorHandlerCalls, result, authCalls,
                 sentAuthorization>>

Next ==
  \/ \E uri \in VerbPaths, query \in Queries, options \in PerCallOptions :
       get(uri, query, options)
  \/ \E uri \in VerbPaths, body \in Bodies, options \in PerCallOptions :
       post(uri, body, options)
  \/ \E uri \in VerbPaths, options \in PerCallOptions : delete(uri, options)
  \/ \E uri \in VerbPaths, body \in Bodies, options \in PerCallOptions :
       put(uri, body, options)
  \/ \E href \in DirectURLs, options \in PerCallOptions :
       requestDirect(href, options)
  \/ \E uri \in AllPaths : createURLDirect(uri)
  \/ \E status \in Statuses, resolverDoes \in ResolverOutcomes,
        handlerDoes \in HandlerOutcomes :
       FetchFulfils(status, resolverDoes, handlerDoes)
  \/ FetchRejects
  \/ Return
  \/ \E value \in FetchOptionsValues : AssignFetchOptions(value)

Spec == Init /\ [][Next]_vars

----------------------------------------------------------------------------
\* What the properties speak of.

VerbHelpers == {"get", "post", "put", "delete"}

\* The current call went through request: fetch was called for it.
Requested ==
  /\ pc \in {"fetching", "settled"}
  /\ call.helper \in VerbHelpers \cup {"request"}
  /\ url.ok

\* The options the transport was given.
Sent == fetchCalls[1].options

\* The transport answered the current call with a response.
Answered == Requested /\ response.t = "Response"

\* The Authorization value request synthesized for the current call.
SynthesizedAuthorization ==
  IF authorization.t = "string" THEN authorization.v
  ELSE authCalls[Len(authCalls)].value

----------------------------------------------------------------------------
\* C1: when the response of a call made through request has a status of 400
\* or more, the error handler has been called exactly once, with the status
\* and the response, the resolver has not been called, and the call returns
\* the response itself (or throws what the error handler threw).
C1_ErrorResponse ==
  (Answered /\ response.status >= 400) =>
    /\ errorHandlerCalls = << <<response.status, response>> >>
    /\ resolverCalls = <<>>
    /\ result \in {Returned(response), Thrown(HandlerError)}

C1_Witness ==
  /\ Answered
  /\ call.helper = "get"
  /\ response.status = 400
  /\ Len(errorHandlerCalls) = 1
  /\ result = Returned(response)

\* C2: when the response of a call made through request has a status below
\* 400, the resolver has been called exactly once, with the response, the
\* error handler has not been called, and the call returns what the resolver
\* returned (or throws what it threw).
C2_SuccessResponse ==
  (Answered /\ response.status < 400) =>
    /\ resolverCalls = <<response>>
    /\ errorHandlerCalls = <<>>
    /\ result \in {Returned(Parsed(response)), Thrown(ResolverError)}

C2_Witness ==
  /\ Answered
  /\ call.helper = "post"
  /\ response.status = 399
  /\ Len(resolverCalls) = 1
  /\ result = Returned(Parsed(response))

\* C3: for every verb helper, a method, a body or a header given in the
\* per-call options is the one the transport is given.
C3_PerCallOptionsOverride ==
  (Requested /\ call.helper \in VerbHelpers) =>
    /\ \A k \in (DOMAIN call.options) \cap {"method", "body"} :
         k \in DOMAIN Sent /\ Sent[k] = call.options[k]
    /\ \A h \in DOMAIN HeadersOf(call.options) :
         /\ h \in DOMAIN Sent["headers"]
         /\ Sent["headers"][h] = HeadersOf(call.options)[h]

\* C4: every key of the fetchOptions given to the constructor that no
\* per-call option overrides (headers, which request rebuilds, aside) is
\* given to the transport with the configured value.
C4_ConstructorFetchOptionsApplied ==
  (Requested /\ "fetchOptions" \in DOMAIN ctorOptions) =>
    \A k \in (DOMAIN ctorOptions["fetchOptions"])
             \ ((DOMAIN call.options) \cup {"headers", "method", "body"}) :
      k \in DOMAIN Sent /\ Sent[k] = ctorOptions["fetchOptions"][k]

SchemePrefix == <<"h", ":", "/", "/">>

StartsWithScheme(s) == Len(s) >= 4 /\ SubSeq(s, 1, 4) = SchemePrefix

C6_NoDuplicateSeparators ==
  (/\ call.helper \in VerbHelpers \cup {"createURL"}
   /\ StartsWithScheme(root)) =>
    /\ StartsWithScheme(url.href)
    /\ \A i \in 5..(Len(url.href) - 1) :
         ~(url.href[i] \in Separators /\ url.href[i + 1] \in Separators)

\* C7: an authorization function is invoked exactly once for each request,
\* its n-th invocation returning its n-th value, and that value is the
\* Authorization the transport is given unless the per-call headers name
\* one: two requests never carry the same synthesized value. A string is
\* used as it is and nothing is invoked.
C7_FreshAuthorization ==
  Requested =>
    /\ authorization.t = "function" =>
         /\ Cardinality({i \in DOMAIN authCalls : authCalls[i].call = ncalls}) = 1
         /\ \A i \in DOMAIN authCalls : authCalls[i].value = Tokens[i]
         /\ \A i, j \in DOMAIN sentAuthorization :
              (/\ i # j
               /\ ~sentAuthorization[i].percall
               /\ ~sentAuthorization[j].percall) =>
                sentAuthorization[i].value # sentAuthorization[j].value
    /\ authorization.t = "string" => authCalls = <<>>
    /\ "Authorization" \notin DOMAIN HeadersOf(call.options) =>
         Sent["headers"]["Authorization"] =
           IF authorization.t = "string" THEN authorization.v
           ELSE Tokens[Len(authCalls)]

C7_Witness ==
  /\ Requested
  /\ authorization.t = "function"
  /\ Len(sentAuthorization) = 2
  /\ sentAuthorization[1].value = "token-1"
  /\ sentAuthorization[2].value = "token-2"
  /\ Sent["headers"]["Authorization"] = "token-2"

\* The JSON text of the string a" and of the object {a: 1}.
QuotedStringBody == StringValue(<<"\"", "a", "\\", "\"", "\"">>)
ObjectBodyText == StringValue(<<"{", "\"", "a", "\"", ":", "1", "}">>)

\* What post is said to send for a body: a string as it is, anything else
\* as its JSON text.
ExpectedPostBody(body) ==
  CASE body.t = "string" -> body
    [] body.t = "object" -> ObjectBodyText
    [] body.t = "undefined" -> Undefined

\* What put is said to send for a body: its JSON text, a string included.
ExpectedPutBody(body) ==
  CASE body.t = "string" -> QuotedStringBody
    [] body.t = "object" -> ObjectBodyText
    [] body.t = "undefined" -> Undefined

\* C8, as stated: the body post gives the transport is the body argument if
\* it is a string and its JSON text otherwise.
C8_PostBody ==
  (Requested /\ call.helper = "post") => Sent["body"] = ExpectedPostBody(call.body)

\* C8, amended: so it is when the per-call options hold no body; a body in
\* the per-call options is sent in its place.
C8_PostBodyUnlessOverridden ==
  (Requested /\ call.helper = "post") =>
    Sent["body"] = IF "body" \in DOMAIN call.options THEN call.options["body"]
                   ELSE ExpectedPostBody(call.body)

C8_Witness ==
  /\ Requested
  /\ call.helper = "post"
  /\ call.body = StringValue(<<"a", "\"">>)
  /\ "body" \notin DOMAIN call.options
  /\ Sent["body"] = call.body

C10_SingleFetch ==
  /\ Requested => Len(fetchCalls) = 1
  /\ \A i, j \in DOMAIN sentAuthorization :
       sentAuthorization[i].call = sentAuthorization[j].call => i = j
  /\ (Requested /\ pc = "settled" /\ response = NoResponse) =>
       /\ result = Thrown(NetworkError)
       /\ resolverCalls = <<>>
       /\ errorHandlerCalls = <<>>

C10_Witness ==
  /\ Requested
  /\ pc = "settled"
  /\ result = Thrown(NetworkError)
  /\ Len(fetchCalls) = 1
  /\ ncalls = 2

====
